---- MODULE Spec2Model ----
(***************************************************************************)
(* Model of restic-ez.py: configuration loading and secret resolution      *)
(* (Config), the restic driver (Restic) and the command workflows, with    *)
(* the restore workflow modelled step by step.  External processes         *)
(* (dialog, restic, the secret shell command, tmux) and filesystem calls   *)
(* are inputs: each returns an exit status drawn from ExitCodes.           *)
(***************************************************************************)
EXTENDS Integers, Sequences, FiniteSets, TLC

VARIABLES
    environ,    \* os.environ of the running process: name -> value
    files,      \* files readable by open(): path -> JSON text
    globalsNS,  \* module globals(): name -> JSON text
    gen,        \* 0: process started by the user, n+1: started inside the tmux session of n
    argv,       \* sys.argv[1]
    pc,         \* position of the process in its workflow
    config,     \* Config._config of the constructed Config object (NoDoc before)
    error,      \* the uncaught exception that ended the process ("none" while running)
    calls,      \* external calls made by the process so far, in order
    dir,        \* state of the managed directory on the filesystem
    dir0,       \* state of the managed directory when the process started
    staging,    \* state of "<directory>.restic-restore"
    listing     \* archives parsed from the last `restic snapshots --json`

vars == <<environ, files, globalsNS, gen, argv, pc, config, error, calls,
          dir, dir0, staging, listing>>

----------------------------------------------------------------------------
(* Bounds *)

MaxArchives == 3    \* longest archive listing returned by restic
MaxGen == 1         \* deepest nesting of restic-ez inside its own tmux session

----------------------------------------------------------------------------
(* Values *)

Range(s) == {s[i] : i \in DOMAIN s}

ExitCodes == {0, 1}

env_json == "RESTIC_EZ_CONFIG"
env_file == "RESTIC_EZ_CONFIG_FILE"
var == "CONFIG"

ConfigPath == "/etc/restic-ez.json"   \* the path a user puts into RESTIC_EZ_CONFIG_FILE

EmptySection == [k \in {} |-> ""]
NoDoc == [directory |-> "", restic |-> EmptySection, s3 |-> EmptySection]

SecretShapes == {"literal", "command", "missing"}

SecretPart(shape, literal, command) ==
    CASE shape = "literal" -> ("pass" :> literal)
      [] shape = "command" -> ("pass_command" :> command)
      [] OTHER -> EmptySection

\* A configuration document; repo tells the sources apart
RawDoc(repo, shapeR, shapeS) ==
    [directory |-> "/d",
     restic |-> ("repo" :> repo) @@ SecretPart(shapeR, "rpw", "pass show restic"),
     s3 |-> ("user" :> "u") @@ SecretPart(shapeS, "spw", "pass show s3")]

PromptAnswers == {"hunter2", ""}
CommandOutput == "from-command"

----------------------------------------------------------------------------
(* JSON text: the sequence of members <<section, key, value>>, top-level     *)
(* members with section "".                                                  *)

JsonKeys == << <<"", "directory">>,
               <<"restic", "repo">>, <<"restic", "pass">>, <<"restic", "pass_command">>,
               <<"s3", "user">>, <<"s3", "pass">>, <<"s3", "pass_command">> >>

HasKey(doc, k) ==
    IF k[1] = "" THEN k[2] \in DOMAIN doc ELSE k[2] \in DOMAIN doc[k[1]]

GetKey(doc, k) ==
    IF k[1] = "" THEN doc[k[2]] ELSE doc[k[1]][k[2]]

RECURSIVE Emit(_, _)
Emit(doc, keys) ==
    IF keys = <<>> THEN <<>>
    ELSE (IF HasKey(doc, Head(keys))
          THEN << <<Head(keys)[1], Head(keys)[2], GetKey(doc, Head(keys))>> >>
          ELSE <<>>) \o Emit(doc, Tail(keys))

json_dumps(doc) == Emit(doc, JsonKeys)

\* the last member with a given name wins, as in a Python dict
SectionOf(text, sec) ==
    LET idx == {i \in DOMAIN text : text[i][1] = sec}
        keys == {text[i][2] : i \in idx}
        last(k) == CHOOSE i \in idx : text[i][2] = k /\ \A j \in idx : text[j][2] = k => j <= i
    IN [k \in keys |-> text[last(k)][3]]

json_loads(text) ==
    [directory |-> SectionOf(text, "")["directory"],
     restic |-> SectionOf(text, "restic"),
     s3 |-> SectionOf(text, "s3")]

----------------------------------------------------------------------------
(* External calls *)

Call(op, arg, out, ok) == [op |-> op, arg |-> arg, out |-> out, ok |-> ok]

\* Command.capture: check_output raises CalledProcessError on a non-zero exit
Command_capture(exit) == exit = 0

Command_display_unchecked(exit) == TRUE

\* Command.display: check_returncode raises CalledProcessError on a non-zero exit
Command_display(exit) == exit = 0

Dialog_truefalse_always(exit) == TRUE

\* Dialog.truefalse: True when the dialog exits with 0, False on any exception
Dialog_truefalse(exit) == Command_capture(exit)

Dialog_input_ignoring_cancel(exit, answer) ==
    [err |-> "none", value |-> answer]

\* Dialog.input: the captured text, RuntimeError when the dialog fails
Dialog_input(exit, answer) ==
    IF Command_capture(exit)
    THEN [err |-> "none", value |-> answer]
    ELSE [err |-> "RuntimeError: Action cancelled by user", value |-> ""]

----------------------------------------------------------------------------
(* Config *)

\* Config.__init__, the choice of the source.  The first branch reads
\* os.environ[env], and no name `env` exists in that scope: NameError.  The
\* second branch opens the file named by env_file itself, not by its value.
Config_load(env, fs, gl) ==
    IF env_json \in DOMAIN env
    THEN [err |-> "NameError", doc |-> NoDoc]
    ELSE IF env_file \in DOMAIN env
    THEN IF env_file \in DOMAIN fs
         THEN [err |-> "none", doc |-> json_loads(fs[env_file])]
         ELSE [err |-> "FileNotFoundError", doc |-> NoDoc]
    ELSE IF var \in DOMAIN gl
    THEN [err |-> "none", doc |-> json_loads(gl[var])]
    ELSE [err |-> "RuntimeError: No configuration in environment or global namespace",
          doc |-> NoDoc]

FieldLabel(section, name) == IF section = "restic" THEN "restic->pass" ELSE "s3->pass"

CommandKey(name) == "pass_command"   \* f"{ name }_command" for the only name used, "pass"

Config_eval_field_prompt_twice(doc, section, name, cmdExit, promptExit, answer) ==
    IF name \in DOMAIN doc[section]
    THEN [doc |-> doc, err |-> "none", calls |-> <<>>]
    ELSE IF CommandKey(name) \in DOMAIN doc[section]
    THEN IF Command_capture(cmdExit)
         THEN [doc |-> [doc EXCEPT ![section] = (name :> CommandOutput) @@ @],
               err |-> "none",
               calls |-> <<Call("sh -c", doc[section][CommandKey(name)], CommandOutput, TRUE)>>]
         ELSE [doc |-> doc, err |-> "CalledProcessError",
               calls |-> <<Call("sh -c", doc[section][CommandKey(name)], "", FALSE)>>]
    ELSE LET r == Dialog_input(promptExit, answer)
             c == Call("dialog --inputbox", FieldLabel(section, name), r.value, promptExit = 0)
         IN [doc |-> IF r.err = "none"
                     THEN [doc EXCEPT ![section] = (name :> r.value) @@ @]
                     ELSE doc,
             err |-> r.err,
             calls |-> IF r.err = "none" THEN <<c, c>> ELSE <<c>>]

\* Config._eval_field
Config_eval_field(doc, section, name, cmdExit, promptExit, answer) ==
    IF name \in DOMAIN doc[section]
    THEN [doc |-> doc, err |-> "none", calls |-> <<>>]
    ELSE IF CommandKey(name) \in DOMAIN doc[section]
    THEN IF Command_capture(cmdExit)
         THEN [doc |-> [doc EXCEPT ![section] = (name :> CommandOutput) @@ @],
               err |-> "none",
               calls |-> <<Call("sh -c", doc[section][CommandKey(name)], CommandOutput, TRUE)>>]
         ELSE [doc |-> doc, err |-> "CalledProcessError",
               calls |-> <<Call("sh -c", doc[section][CommandKey(name)], "", FALSE)>>]
    ELSE LET r == Dialog_input(promptExit, answer)
         IN [doc |-> IF r.err = "none"
                     THEN [doc EXCEPT ![section] = (name :> r.value) @@ @]
                     ELSE doc,
             err |-> r.err,
             calls |-> <<Call("dialog --inputbox", FieldLabel(section, name),
                              r.value, promptExit = 0)>>]

\* the inputs of one Config(): exit status of each secret command and prompt,
\* and the text typed into each prompt
ConfigInputs ==
    [rc : ExitCodes, rp : ExitCodes, ra : PromptAnswers,
     sc : ExitCodes, sp : ExitCodes, sa : PromptAnswers]

\* Config.__init__: load, then evaluate restic.pass, then s3.pass
Config_init(env, fs, gl, in) ==
    LET l == Config_load(env, fs, gl)
        r == Config_eval_field(l.doc, "restic", "pass", in.rc, in.rp, in.ra)
        s == Config_eval_field(r.doc, "s3", "pass", in.sc, in.sp, in.sa)
    IN IF l.err # "none" THEN [doc |-> NoDoc, err |-> l.err, calls |-> <<>>]
       ELSE IF r.err # "none" THEN [doc |-> NoDoc, err |-> r.err, calls |-> r.calls]
       ELSE IF s.err # "none" THEN [doc |-> NoDoc, err |-> s.err, calls |-> r.calls \o s.calls]
       ELSE [doc |-> s.doc, err |-> "none", calls |-> r.calls \o s.calls]

\* Config.get_directory
Config_get_directory(doc) == doc.directory

\* Config.env
Config_env(doc) ==
    (env_json :> json_dumps(doc)) @@
    ("DIRECTORY" :> Config_get_directory(doc)) @@
    ("RESTIC_PASSWORD" :> doc.restic["pass"]) @@
    ("RESTIC_REPOSITORY" :> doc.restic["repo"]) @@
    ("AWS_ACCESS_KEY_ID" :> doc.s3["user"]) @@
    ("AWS_SECRET_ACCESS_KEY" :> doc.s3["pass"])

----------------------------------------------------------------------------
(* Restic *)

\* timestamps are strings (sequences of character codes)
Times == {<<1>>, <<1, 2>>, <<2>>}

TagLists == {<<"backup">>, <<"snapshot">>}

ArchiveIds == <<"a", "b", "c", "d", "e", "f">>

\* what json.loads makes of the output of `restic snapshots --json`
Listings ==
    UNION {{[i \in 1..n |-> [id |-> ArchiveIds[i], time |-> f[i].time, tags |-> f[i].tags]] :
              f \in [1..n -> [time : Times, tags : TagLists]]} : n \in 0..MaxArchives}

\* Python's < on str: lexicographic, a proper prefix is smaller
RECURSIVE StrLess(_, _)
StrLess(a, b) ==
    IF a = <<>> THEN b # <<>>
    ELSE IF b = <<>> THEN FALSE
    ELSE IF Head(a) # Head(b) THEN Head(a) < Head(b)
    ELSE StrLess(Tail(a), Tail(b))

NotFiltered(archives) == archives

\* filter(lambda a: "snapshot" not in a["tags"], archives)
Filter(archives) == SelectSeq(archives, LAMBDA a : "snapshot" \notin Range(a.tags))

\* x goes behind every element that is not greater: the sort is stable
Insert(x, s) ==
    LET k == Cardinality({i \in DOMAIN s : ~StrLess(x.time, s[i].time)})
    IN SubSeq(s, 1, k) \o <<x>> \o SubSeq(s, k + 1, Len(s))

RECURSIVE SortedDescending(_)
SortedDescending(s) ==
    IF s = <<>> THEN <<>>
    ELSE LET r == SortedDescending(SubSeq(s, 1, Len(s) - 1))
             x == s[Len(s)]
             k == Cardinality({i \in DOMAIN r : ~StrLess(r[i].time, x.time)})
         IN SubSeq(r, 1, k) \o <<x>> \o SubSeq(r, k + 1, Len(r))

\* sorted(archives, key=lambda a: a["time"])
RECURSIVE Sorted(_)
Sorted(s) ==
    IF s = <<>> THEN <<>>
    ELSE Insert(s[Len(s)], Sorted(SubSeq(s, 1, Len(s) - 1)))

\* Restic.restore, the choice of the id when none is given; archives[-1] of an
\* empty list raises IndexError
Restic_select(archives) ==
    LET sel == Sorted(Filter(archives))
    IN IF sel = <<>> THEN [err |-> "IndexError", id |-> ""]
       ELSE [err |-> "none", id |-> sel[Len(sel)].id]

----------------------------------------------------------------------------
(* Filesystem *)

exists_always(d) == TRUE

\* os.path.exists
os_path_exists(d) == d # "absent"

----------------------------------------------------------------------------
(* The process *)

Commands == {"help", "list", "create", "restore", "check", "break-lock", "tmux"}

NoVars == [k \in {} |-> ""]

Init ==
    /\ \E shapeR \in SecretShapes, shapeS \in SecretShapes, j \in BOOLEAN, f \in BOOLEAN,
          cwd \in BOOLEAN, g \in BOOLEAN :
          /\ environ = (IF j THEN env_json :> json_dumps(RawDoc("repo-inline", shapeR, shapeS))
                             ELSE NoVars)
                       @@ (IF f THEN env_file :> ConfigPath ELSE NoVars)
          /\ files = (ConfigPath :> json_dumps(RawDoc("repo-file", shapeR, shapeS)))
                     @@ (IF cwd THEN env_file :> json_dumps(RawDoc("repo-cwd", shapeR, shapeS))
                                ELSE NoVars)
          /\ globalsNS = (IF g THEN var :> json_dumps(RawDoc("repo-global", shapeR, shapeS))
                               ELSE NoVars)
    /\ gen = 0
    /\ argv = ""
    /\ pc = "main"
    /\ config = NoDoc
    /\ error = "none"
    /\ calls = <<>>
    /\ dir \in {"original", "absent"}
    /\ dir0 = dir
    /\ staging = "absent"
    /\ listing = <<>>

\* an uncaught exception ends the process
Raise(e) == pc' = "failed" /\ error' = e

\* Dialog.info, then the next statement or CalledProcessError
Info(text, exit, next) ==
    /\ calls' = Append(calls, Call("dialog --infobox", text, "", Command_capture(exit)))
    /\ IF Command_capture(exit)
       THEN pc' = next /\ error' = error
       ELSE Raise("CalledProcessError")

\* __main__: dispatch on sys.argv[1]
Main ==
    /\ pc = "main"
    /\ \E c \in Commands :
          /\ argv' = c
          /\ pc' = IF c = "help" THEN "done" ELSE "Config"
    /\ UNCHANGED <<environ, files, globalsNS, gen, config, error, calls, dir, dir0,
                   staging, listing>>

\* config = Config(), the first statement of every workflow
ConfigInit ==
    /\ pc = "Config"
    /\ \E in \in ConfigInputs :
          LET r == Config_init(environ, files, globalsNS, in)
          IN /\ calls' = calls \o r.calls
             /\ IF r.err = "none"
                THEN config' = r.doc /\ pc' = argv /\ error' = error
                ELSE config' = config /\ Raise(r.err)
    /\ UNCHANGED <<environ, files, globalsNS, gen, argv, dir, dir0, staging, listing>>

\* a workflow of one progress message and one streamed restic command
InfoThenDisplay(text, op, arg) ==
    /\ \E e1 \in ExitCodes, e2 \in ExitCodes :
          IF ~Command_capture(e1)
          THEN /\ calls' = Append(calls, Call("dialog --infobox", text, "", FALSE))
               /\ Raise("CalledProcessError")
          ELSE /\ calls' = calls \o <<Call("dialog --infobox", text, "", TRUE),
                                      Call(op, arg, "", Command_display(e2))>>
               /\ IF Command_display(e2)
                  THEN pc' = "done" /\ error' = error
                  ELSE Raise("CalledProcessError")
    /\ UNCHANGED <<environ, files, globalsNS, gen, argv, config, dir, dir0, staging, listing>>

\* list(): Restic.list captures and parses `restic snapshots --json`
List ==
    /\ pc = "list"
    /\ \E e1 \in ExitCodes, e2 \in ExitCodes, l \in Listings :
          IF ~Command_capture(e1)
          THEN /\ calls' = Append(calls, Call("dialog --infobox", "Listing archives...", "", FALSE))
               /\ listing' = listing
               /\ Raise("CalledProcessError")
          ELSE /\ calls' = calls \o <<Call("dialog --infobox", "Listing archives...", "", TRUE),
                                      Call("restic snapshots", "", "", Command_capture(e2))>>
               /\ IF Command_capture(e2)
                  THEN listing' = l /\ pc' = "done" /\ error' = error
                  ELSE listing' = listing /\ Raise("CalledProcessError")
    /\ UNCHANGED <<environ, files, globalsNS, gen, argv, config, dir, dir0, staging>>

\* create(): Restic.create(tags=["backup"])
Create ==
    /\ pc = "create"
    /\ InfoThenDisplay("Creating archive...", "restic backup", "backup")

\* check()
Check ==
    /\ pc = "check"
    /\ InfoThenDisplay("Verifying archive...", "restic check", "")

\* break_lock()
BreakLock ==
    /\ pc = "break-lock"
    /\ InfoThenDisplay("Breaking lock...", "restic unlock", "")

\* tmux(): the session ends
Tmux ==
    /\ pc = "tmux"
    /\ \E e \in ExitCodes :
          /\ calls' = Append(calls, Call("tmux", "", "", Command_display(e)))
          /\ IF Command_display(e)
             THEN pc' = "done" /\ error' = error
             ELSE Raise("CalledProcessError")
    /\ UNCHANGED <<environ, files, globalsNS, gen, argv, config, dir, dir0, staging, listing>>

\* tmux(): the program is started again inside the session, whose environment
\* is {**os.environ, **config.env()}
TmuxChild ==
    /\ pc = "tmux"
    /\ gen < MaxGen
    /\ environ' = Config_env(config) @@ environ
    /\ gen' = gen + 1
    /\ argv' = ""
    /\ pc' = "main"
    /\ config' = NoDoc
    /\ error' = "none"
    /\ calls' = <<>>
    /\ dir0' = dir
    /\ listing' = <<>>
    /\ UNCHANGED <<files, globalsNS, dir, staging>>

----------------------------------------------------------------------------
(* restore() *)

\* if os.path.exists(config.get_directory()):
RestoreStart ==
    /\ pc = "restore"
    /\ pc' = IF os_path_exists(dir) THEN "restore_info_snapshot" ELSE "restore_info_restoring"
    /\ UNCHANGED <<environ, files, globalsNS, gen, argv, config, error, calls, dir, dir0,
                   staging, listing>>

\* Dialog.info("Creating snapshot archive...")
RestoreInfoSnapshot ==
    /\ pc = "restore_info_snapshot"
    /\ \E e \in ExitCodes : Info("Creating snapshot archive...", e, "restore_create")
    /\ UNCHANGED <<environ, files, globalsNS, gen, argv, config, dir, dir0, staging, listing>>

\* Restic(config).create(tags=["snapshot"])
RestoreCreate ==
    /\ pc = "restore_create"
    /\ \E e \in ExitCodes :
          /\ calls' = Append(calls, Call("restic backup", "snapshot", "", e = 0))
          /\ IF Command_display(e)
             THEN pc' = "restore_confirm" /\ error' = error
             ELSE Raise("CalledProcessError")
    /\ UNCHANGED <<environ, files, globalsNS, gen, argv, config, dir, dir0, staging, listing>>

\* if not Dialog.truefalse("Delete ...?"): raise RuntimeError("Action cancelled by user")
RestoreConfirm ==
    /\ pc = "restore_confirm"
    /\ \E e \in ExitCodes :
          /\ calls' = Append(calls, Call("dialog --yesno", "Delete directory?", "", e = 0))
          /\ IF Dialog_truefalse(e)
             THEN pc' = "restore_rmtree" /\ error' = error
             ELSE Raise("RuntimeError: Action cancelled by user")
    /\ UNCHANGED <<environ, files, globalsNS, gen, argv, config, dir, dir0, staging, listing>>

RestoreRmtree_ignore_errors ==
    /\ pc = "restore_rmtree"
    /\ calls' = Append(calls, Call("rmtree", "directory", "", TRUE))
    /\ dir' \in {dir, "partial", "absent"}
    /\ pc' = "restore_info_restoring" /\ error' = error
    /\ UNCHANGED <<environ, files, globalsNS, gen, argv, config, dir0, staging, listing>>

\* shutil.rmtree(config.get_directory()); a failing rmtree may have removed a part
RestoreRmtree ==
    /\ pc = "restore_rmtree"
    /\ \/ /\ calls' = Append(calls, Call("rmtree", "directory", "", TRUE))
          /\ dir' = "absent"
          /\ pc' = "restore_info_restoring" /\ error' = error
       \/ /\ calls' = Append(calls, Call("rmtree", "directory", "", FALSE))
          /\ dir' \in {dir, "partial"}
          /\ Raise("OSError")
    /\ UNCHANGED <<environ, files, globalsNS, gen, argv, config, dir0, staging, listing>>

\* Dialog.info("Restoring latest archive (this may take some time)...")
RestoreInfoRestoring ==
    /\ pc = "restore_info_restoring"
    /\ \E e \in ExitCodes :
          Info("Restoring latest archive (this may take some time)...", e, "restore_restic")
    /\ UNCHANGED <<environ, files, globalsNS, gen, argv, config, dir, dir0, staging, listing>>

\* Restic(config).restore(staging path): list, choose the id, restore
RestoreRestic ==
    /\ pc = "restore_restic"
    /\ \E le \in ExitCodes, l \in Listings, re \in ExitCodes :
          LET sel == Restic_select(l)
          IN IF ~Command_capture(le)
             THEN /\ calls' = Append(calls, Call("restic snapshots", "", "", FALSE))
                  /\ listing' = listing /\ staging' = staging
                  /\ Raise("CalledProcessError")
             ELSE IF sel.err # "none"
             THEN /\ calls' = Append(calls, Call("restic snapshots", "", "", TRUE))
                  /\ listing' = l /\ staging' = staging
                  /\ Raise(sel.err)
             ELSE /\ calls' = calls \o <<Call("restic snapshots", "", "", TRUE),
                                         Call("restic restore", sel.id, "", re = 0)>>
                  /\ listing' = l
                  /\ IF Command_display(re)
                     THEN staging' = "populated" /\ pc' = "restore_info_moving"
                          /\ error' = error
                     ELSE staging' \in {staging, "partial"} /\ Raise("CalledProcessError")
    /\ UNCHANGED <<environ, files, globalsNS, gen, argv, config, dir, dir0>>

\* Dialog.info("Moving restored directory into final location...")
RestoreInfoMoving ==
    /\ pc = "restore_info_moving"
    /\ \E e \in ExitCodes :
          Info("Moving restored directory into final location...", e, "restore_move")
    /\ UNCHANGED <<environ, files, globalsNS, gen, argv, config, dir, dir0, staging, listing>>

\* shutil.move(restored, config.get_directory()): a rename, or a copy and a
\* removal of the source when the rename fails; a failing move may leave
\* nothing, a part or all of the tree at the destination
RestoreMove ==
    /\ pc = "restore_move"
    /\ \/ /\ calls' = Append(calls, Call("move", "directory", "", TRUE))
          /\ dir' = "restored"
          /\ staging' = "emptied"
          /\ pc' = "restore_rmtree_staging" /\ error' = error
       \/ /\ calls' = Append(calls, Call("move", "directory", "", FALSE))
          /\ dir' \in {dir, "partial", "restored"}
          /\ staging' = staging
          /\ Raise("OSError")
    /\ UNCHANGED <<environ, files, globalsNS, gen, argv, config, dir0, listing>>

\* shutil.rmtree(staging path)
RestoreRmtreeStaging ==
    /\ pc = "restore_rmtree_staging"
    /\ \/ /\ calls' = Append(calls, Call("rmtree", "staging", "", TRUE))
          /\ staging' = "absent"
          /\ pc' = "done" /\ error' = error
       \/ /\ calls' = Append(calls, Call("rmtree", "staging", "", FALSE))
          /\ staging' = staging
          /\ Raise("OSError")
    /\ UNCHANGED <<environ, files, globalsNS, gen, argv, config, dir, dir0, listing>>

Next ==
    \/ Main
    \/ ConfigInit
    \/ List
    \/ Create
    \/ Check
    \/ BreakLock
    \/ Tmux
    \/ TmuxChild
    \/ RestoreStart
    \/ RestoreInfoSnapshot
    \/ RestoreCreate
    \/ RestoreConfirm
    \/ RestoreRmtree
    \/ RestoreInfoRestoring
    \/ RestoreRestic
    \/ RestoreInfoMoving
    \/ RestoreMove
    \/ RestoreRmtreeStaging

Spec == Init /\ [][Next]_vars

----------------------------------------------------------------------------
(* Properties *)

NoConfigError == "RuntimeError: No configuration in environment or global namespace"
CancelledError == "RuntimeError: Action cancelled by user"

Idx(op) == {i \in DOMAIN calls : calls[i].op = op}
IdxArg(op, arg) == {i \in DOMAIN calls : calls[i].op = op /\ calls[i].arg = arg}

BackupToolOps == {"restic backup", "restic snapshots", "restic restore", "restic check",
                  "restic unlock"}

\* Config() has returned or raised in this process
Constructed == pc \notin {"main", "Config"} /\ argv # "help"

\* C1: in the restore workflow the managed directory is removed only after a
\* successful backup tagged "snapshot" and an affirmative delete confirmation
\* of the same run; after a failed snapshot or a declined confirmation no
\* removal is attempted and the directory stays as it was.
C1_RemoveOnlyAfterSnapshotAndYes ==
    /\ \A i \in IdxArg("rmtree", "directory") :
          /\ \E j \in IdxArg("restic backup", "snapshot") : j < i /\ calls[j].ok
          /\ \E k \in Idx("dialog --yesno") : k < i /\ calls[k].ok
    /\ (\/ \E j \in IdxArg("restic backup", "snapshot") : ~calls[j].ok
        \/ \E k \in Idx("dialog --yesno") : ~calls[k].ok)
       => IdxArg("rmtree", "directory") = {} /\ dir = dir0

C1_Witness ==
    /\ \E i \in IdxArg("rmtree", "directory") : calls[i].ok
    /\ dir0 = "original" /\ dir = "absent"

\* C2: when the user declines the delete confirmation the restore workflow
\* ends with the user-cancelled error, the managed directory is as it was and
\* nothing (no backup-tool call, no move, no removal) runs after the decline.
C2_DeclineEndsWorkflow ==
    \A k \in Idx("dialog --yesno") :
        ~calls[k].ok =>
            /\ k = Len(calls)
            /\ pc = "failed" /\ error = CancelledError
            /\ dir = dir0 /\ staging = "absent"

C2_Witness ==
    /\ argv = "restore" /\ pc = "failed" /\ error = CancelledError
    /\ \E k \in Idx("dialog --yesno") : ~calls[k].ok
    /\ dir = "original"

\* C3: when the managed directory is absent at the start of restore, no
\* snapshot is created, no confirmation is asked and nothing is deleted; the
\* workflow goes from the existence test to the restore and relocation steps.
C3_AbsentSkipsSnapshotAndDelete ==
    (argv = "restore" /\ dir0 = "absent") =>
        /\ Idx("restic backup") = {}
        /\ Idx("dialog --yesno") = {}
        /\ IdxArg("rmtree", "directory") = {}
        /\ pc \notin {"restore_info_snapshot", "restore_create", "restore_confirm",
                      "restore_rmtree"}

C3_Witness ==
    /\ argv = "restore" /\ dir0 = "absent" /\ pc = "done"
    /\ Idx("restic restore") # {} /\ Idx("move") # {}
    /\ dir = "restored"

NonSnapshot(a) == "snapshot" \notin Range(a.tags)

\* C4: the id of an issued restore command is the id of a listed archive that
\* is not tagged "snapshot" and whose timestamp no other listed archive
\* without that tag exceeds.
C4_SelectsLatestNonSnapshot ==
    \A i \in Idx("restic restore") :
        \E k \in DOMAIN listing :
            /\ listing[k].id = calls[i].arg
            /\ NonSnapshot(listing[k])
            /\ \A m \in DOMAIN listing :
                  NonSnapshot(listing[m]) => ~StrLess(listing[k].time, listing[m].time)

\* the listing a(T1), b(T2, snapshot), c(T3) with T1 < T2 < T3, and c restored
C4_Witness ==
    /\ Len(listing) = 3
    /\ NonSnapshot(listing[1]) /\ ~NonSnapshot(listing[2]) /\ NonSnapshot(listing[3])
    /\ StrLess(listing[1].time, listing[2].time)
    /\ StrLess(listing[2].time, listing[3].time)
    /\ \E i \in Idx("restic restore") : calls[i].arg = "c"

ListedInRestore == argv = "restore" /\ \E i \in Idx("restic snapshots") : calls[i].ok

\* C5: when the listing holds no archive without the "snapshot" tag, restore
\* without an id fails at the selection (the IndexError of archives[-1]) and
\* no restore command is issued.
C5_NoArchiveFails ==
    (ListedInRestore /\ \A k \in DOMAIN listing : ~NonSnapshot(listing[k])) =>
        /\ pc = "failed" /\ error = "IndexError"
        /\ Idx("restic restore") = {}

C5_Witness ==
    /\ ListedInRestore
    /\ Len(listing) >= 2
    /\ \A k \in DOMAIN listing : ~NonSnapshot(listing[k])
    /\ error = "IndexError"

\* the document as parsed from the source, before the secrets are evaluated
Loaded == Config_load(environ, files, globalsNS)

Missing(section) ==
    /\ Loaded.err = "none"
    /\ "pass" \notin DOMAIN Loaded.doc[section]
    /\ "pass_command" \notin DOMAIN Loaded.doc[section]

\* C6: a secret field with neither a literal value nor a command is prompted
\* for at most once in the process; once the configuration is constructed it
\* was prompted for exactly once, the document holds the answer, and no later
\* step of any workflow prompts for it again.
C6_PromptOncePerMissingSecret ==
    \A section \in {"restic", "s3"} :
        Missing(section) =>
            LET asked == IdxArg("dialog --inputbox", FieldLabel(section, "pass"))
            IN /\ Cardinality(asked) <= 1
               /\ config # NoDoc =>
                     /\ Cardinality(asked) = 1
                     /\ "pass" \in DOMAIN config[section]
                     /\ \A i \in asked : calls[i].ok /\ config[section]["pass"] = calls[i].out

C6_Witness ==
    /\ Missing("restic") /\ Missing("s3")
    /\ config # NoDoc
    /\ argv = "restore" /\ pc = "done"

\* C7: a process started with the RESTIC_EZ_CONFIG value that Config.env()
\* produced from a resolved configuration constructs its configuration
\* successfully, as the same document, without a secret command or a prompt.
C7_RoundTripReload ==
    (gen >= 1 /\ Constructed) =>
        /\ config = json_loads(environ[env_json])
        /\ Idx("sh -c") = {} /\ Idx("dialog --inputbox") = {}

\* the sources in the order of the documentation: the inline JSON, the file
\* whose path is the value of RESTIC_EZ_CONFIG_FILE, the variable CONFIG
LoadInOrder(env, fs, gl) ==
    IF env_json \in DOMAIN env
    THEN [err |-> "none", doc |-> json_loads(env[env_json])]
    ELSE IF env_file \in DOMAIN env
    THEN IF env[env_file] \in DOMAIN fs
         THEN [err |-> "none", doc |-> json_loads(fs[env[env_file]])]
         ELSE [err |-> "FileNotFoundError", doc |-> NoDoc]
    ELSE IF var \in DOMAIN gl
    THEN [err |-> "none", doc |-> json_loads(gl[var])]
    ELSE [err |-> "RuntimeError: No configuration in environment or global namespace",
          doc |-> NoDoc]

\* C8: the configuration is taken from the first source present, in the order
\* RESTIC_EZ_CONFIG, the file named by the value of RESTIC_EZ_CONFIG_FILE,
\* CONFIG, and the load fails for want of a source only when none is present.
C8_FirstSourcePresent ==
    Constructed =>
        LET want == LoadInOrder(environ, files, globalsNS)
        IN /\ (error = NoConfigError) <=> (want.err = NoConfigError)
           /\ want.err = "none" => error \notin {"NameError", "FileNotFoundError"}
           /\ (want.err = "none" /\ config # NoDoc) =>
                 config.restic["repo"] = want.doc.restic["repo"]

Deleted == \E i \in IdxArg("rmtree", "directory") : calls[i].ok

\* C9 as stated: a failure at any step after the deletion of the managed
\* directory ends the run with the managed directory absent.
C9_FailureAfterDeleteLeavesAbsent ==
    (Deleted /\ pc = "failed") => dir = "absent"

\* C9, amended: a failure after the deletion and before the move into the
\* final location (progress messages, listing, selection, backup-tool restore)
\* ends the run with the managed directory absent; a failure of the removal of
\* the staging tree ends it with the managed directory present and restored.
C9_FailureBeforeMoveLeavesAbsent ==
    (Deleted /\ pc = "failed") =>
        /\ Idx("move") = {} => dir = "absent"
        /\ IdxArg("rmtree", "staging") # {} => dir = "restored"

C9_Witness ==
    /\ Deleted /\ pc = "failed" /\ error = "CalledProcessError"
    /\ \E i \in Idx("restic restore") : ~calls[i].ok
    /\ staging = "partial" /\ dir = "absent"

CancelledPrompt == \E i \in Idx("dialog --inputbox") : ~calls[i].ok
DeclinedDelete == \E k \in Idx("dialog --yesno") : ~calls[k].ok

\* C10 as stated: at a cancellation (of a secret prompt or of the delete
\* confirmation) the workflow has created no archive and has not modified the
\* managed directory.
C10_CancelWithoutSideEffects ==
    (CancelledPrompt \/ DeclinedDelete) =>
        /\ Idx("restic backup") = {}
        /\ dir = dir0

\* C10, amended: after a cancelled secret prompt the process makes no
\* backup-tool call and leaves the managed directory and the staging path as
\* they were; after a declined delete confirmation the managed directory is as
\* it was, and the one archive created is the "snapshot" one.
C10_CancelSideEffects ==
    /\ CancelledPrompt =>
          /\ \A i \in DOMAIN calls : calls[i].op \notin BackupToolOps
          /\ dir = dir0 /\ staging = "absent"
    /\ DeclinedDelete =>
          /\ dir = dir0
          /\ Idx("restic backup") = IdxArg("restic backup", "snapshot")
          /\ Cardinality(Idx("restic backup")) = 1
          /\ \A i \in Idx("restic backup") : calls[i].ok

C10_Witness ==
    /\ DeclinedDelete
    /\ \E i \in Idx("dialog --inputbox") : calls[i].ok
    /\ \E i \in IdxArg("restic backup", "snapshot") : calls[i].ok
    /\ error = CancelledError

====
